---- MODULE Spec2Model ----
(***************************************************************************)
(* RamFS: the in-memory inode graph of Filesystem.c and the FUSE handlers  *)
(* of main.c that drive it.                                                *)
(*                                                                         *)
(* Strings are sequences of one-character strings, so that checkPath,      *)
(* extractPrefix and pathfind work on characters as the C code does.       *)
(* The heap is a table of inode slots; a directory's `data` is its entry   *)
(* list from the head entry on, a NULL `data` is the empty sequence.       *)
(* calloc hands out the lowest free slot.  The contents of regular files   *)
(* are not part of this model.                                             *)
(***************************************************************************)
EXTENDS Integers, Sequences, FiniteSets, Bags, TLC

VARIABLES
    ino,      \* the inode heap: slot -> struct inode (alloc = FALSE: freed)
    handles,  \* bag of open file handles [path, node]: FUSE's fuse_file_info
    phase,    \* "run", "destroy", "done", "crashed"
    stack,    \* call stack of releaseAll during ramDestroy
    last,     \* [op, ret]: the last handler called and what it returned
    okSoFar,  \* every handler called so far returned 0
    fuel,     \* handler calls the run may still make
    reach     \* the inodes reachable from the root when ramDestroy began

vars == <<ino, handles, phase, stack, last, okSoFar, fuel, reach>>

----------------------------------------------------------------------------
(* Bounds of the model *)

MaxInodes == 3   \* inode slots besides the root
MaxOpen == 1     \* open file handles at one time
MaxOps == 4      \* handler calls in one run
MaxDirOps == 6   \* handler calls in one run of directory operations alone
MaxFileOps == 5  \* handler calls in one run of file operations alone
MaxIoOps == 4    \* handler calls in one run of reads and writes
MaxBytes == 2    \* largest offset and largest byte count of one call

----------------------------------------------------------------------------
(* Filesystem.h *)

Split == "/"
NAME_MAX == 255   \* <limits.h>: the size of entry.name
NULL == -1
RootId == 0
Ids == 0..MaxInodes

Dot == <<".">>
DotDot == <<".", ".">>

isDir(node) == node.mode = "dir"
isFile(node) == node.mode = "reg"

\* A freed slot.
NoInode ==
    [alloc |-> FALSE, mode |-> "none", nlink |-> 0, nopen |-> 0,
     size |-> 0, parent |-> NULL, traversing |-> FALSE, data |-> <<>>]

\* calloc(1, sizeof(inode)) with the mode set by the caller.
NewInode(mode) ==
    [alloc |-> TRUE, mode |-> mode, nlink |-> 0, nopen |-> 0,
     size |-> 0, parent |-> NULL, traversing |-> FALSE, data |-> <<>>]

Entry(name, node) == [name |-> name, node |-> node]

\* Results of the core functions: errno, or OK.
OK == "OK"

----------------------------------------------------------------------------
(* Inputs: the paths the handlers are called with *)

PA == <<"/", "a">>
PB == <<"/", "b">>
PAA == <<"/", "a", "/", "a">>
PAB == <<"/", "a", "/", "b">>
PBA == <<"/", "b", "/", "a">>
PRoot == <<"/">>
PTrail == <<"/", "a", "/">>
PRel == <<"a">>
PEmpty == <<>>

Paths == {PA, PB, PAA, PAB, PBA, PRoot, PTrail, PRel, PEmpty}

----------------------------------------------------------------------------
(* Filesystem.c *)

Min(S) == CHOOSE i \in S : \A j \in S : i <= j
Max(S) == CHOOSE i \in S : \A j \in S : i >= j

\* Let(e, LAMBDA x : body) is body with x bound to the value of e, which is
\* computed once.
Let(e, F(_)) == CHOOSE y \in {F(x) : x \in {e}} : TRUE

Res(err, fs) == [err |-> err, fs |-> fs]

\* Index of the first entry of list named name at or after position from,
\* 0 if there is none.
FirstIdx(list, name, from) ==
    Let({i \in from..Len(list) : list[i].name = name},
        LAMBDA S : IF S = {} THEN 0 ELSE Min(S))

\* Length of the first component of path: up to '\0' or Split.
CompLen(path) ==
    Let({i \in 1..Len(path) : path[i] = Split},
        LAMBDA S : IF S = {} THEN Len(path) ELSE Min(S) - 1)

\* pathfind after the optional Split at the start has been skipped.
RECURSIVE pathfind(_, _, _)
pathfindFrom(fs, p, root) ==
    IF p = <<>> THEN [err |-> OK, node |-> root]
    ELSE IF ~isDir(fs[root]) THEN [err |-> "ENOTDIR", node |-> NULL]
    ELSE Let(CompLen(p), LAMBDA n :
         Let(FirstIdx(fs[root].data, SubSeq(p, 1, n), 1), LAMBDA i :
            IF i # 0
            THEN pathfind(fs, SubSeq(p, n + 1, Len(p)), fs[root].data[i].node)
            ELSE [err |-> "ENOENT", node |-> NULL]))

pathfind(fs, path, root) ==
    IF path # <<>> /\ Head(path) = Split
    THEN Let(Tail(path), LAMBDA p : pathfindFrom(fs, p, root))
    ELSE pathfindFrom(fs, path, root)

checkPath(path) ==
    IF path = <<>> THEN "ENOENT"
    ELSE IF Head(path) # Split THEN "EINVAL"
    ELSE OK

\* Position (0-based, as in C) of the last Split of path; the caller has
\* checked that path starts with Split.  result is path cut at n, so
\* strlen(result) is n and the test for an empty file name compares 0 to 1.
extractPrefix(path) ==
    Let(Max({i \in 0..(Len(path) - 1) : path[i + 1] = Split}), LAMBDA n :
    Let(SubSeq(path, 1, n), LAMBDA result :
        IF Len(result) - n = 1
        THEN [err |-> "ENOENT", n |-> -1, result |-> result]
        ELSE [err |-> OK, n |-> n, result |-> result]))

NoParent(err) == [err |-> err, dir |-> NULL, name |-> <<>>]

getParentDirectory(fs, path) ==
    IF checkPath(path) # OK THEN NoParent(checkPath(path))
    ELSE Let(extractPrefix(path), LAMBDA x :
         IF x.err # OK THEN NoParent(x.err)
         ELSE Let(pathfind(fs, x.result, RootId), LAMBDA d :
              IF d.node = NULL THEN NoParent(d.err)
              ELSE IF ~isDir(fs[d.node]) THEN NoParent("ENOTDIR")
              ELSE [err |-> OK, dir |-> d.node,
                    name |-> SubSeq(path, x.n + 2, Len(path))]))

\* removeEntry never looks at the head entry: it compares p->next->name.
removeEntry(list, name) ==
    Let(FirstIdx(list, name, 2), LAMBDA i :
        IF i = 0 THEN [err |-> "ENOENT", node |-> NULL, list |-> list]
        ELSE [err |-> OK, node |-> list[i].node,
              list |-> SubSeq(list, 1, i - 1) \o SubSeq(list, i + 1, Len(list))])

\* addEntry followed by the caller's p->node = node; oom: calloc returns NULL.
addEntry(list, name, node, oom) ==
    IF oom THEN [err |-> "ENOSPC", list |-> list]
    ELSE [err |-> OK, list |-> Append(list, Entry(name, node))]

\* addNode that forgets node->nlink++.
addNode_noLinkCount(fs, path, node, oom) ==
    Let(getParentDirectory(fs, path), LAMBDA pd :
        IF pd.err # OK THEN Res(pd.err, fs)
        ELSE IF pathfind(fs, pd.name, pd.dir).node # NULL
        THEN Res("EEXIST", fs)
        ELSE Let(addEntry(fs[pd.dir].data, pd.name, node, oom), LAMBDA p :
             IF p.err # OK THEN Res(p.err, fs)
             ELSE Res(OK, [fs EXCEPT
                             ![pd.dir].data = p.list,
                             ![node].parent = IF @ = NULL THEN pd.dir ELSE @])))

\* addNode that appends and counts the link before it looks for the name.
addNode_appendsFirst(fs, path, node, oom) ==
    Let(getParentDirectory(fs, path), LAMBDA pd :
        IF pd.err # OK THEN Res(pd.err, fs)
        ELSE Let(addEntry(fs[pd.dir].data, pd.name, node, oom), LAMBDA p :
             IF p.err # OK THEN Res(p.err, fs)
             ELSE Let([fs EXCEPT
                         ![pd.dir].data = p.list,
                         ![node].nlink = @ + 1,
                         ![node].parent = IF @ = NULL THEN pd.dir ELSE @],
                      LAMBDA fs1 :
                  IF pathfind(fs, pd.name, pd.dir).node # NULL
                  THEN Res("EEXIST", fs1)
                  ELSE Res(OK, fs1))))

addNode(fs, path, node, oom) ==
    Let(getParentDirectory(fs, path), LAMBDA pd :
        IF pd.err # OK THEN Res(pd.err, fs)
        ELSE IF pathfind(fs, pd.name, pd.dir).node # NULL
        THEN Res("EEXIST", fs)
        ELSE Let(addEntry(fs[pd.dir].data, pd.name, node, oom), LAMBDA p :
             IF p.err # OK THEN Res(p.err, fs)
             ELSE Res(OK, [fs EXCEPT
                             ![pd.dir].data = p.list,
                             ![node].nlink = @ + 1,
                             ![node].parent = IF @ = NULL THEN pd.dir ELSE @])))

\* moveNode that counts a link for the new name, as addNode does.
moveNode_countsLink(fs, path, newpath, oom) ==
    Let(getParentDirectory(fs, path), LAMBDA old :
        IF old.err # OK THEN Res(old.err, fs)
        ELSE Let(getParentDirectory(fs, newpath), LAMBDA new :
        IF new.err # OK THEN Res(new.err, fs)
        ELSE Let(removeEntry(fs[old.dir].data, old.name), LAMBDA r :
        IF r.node = NULL THEN Res(r.err, fs)
        ELSE Let([fs EXCEPT ![old.dir].data = r.list], LAMBDA fs1 :
        Let(addEntry(fs1[new.dir].data, new.name, r.node, oom), LAMBDA p :
        IF p.err # OK THEN Res(p.err, fs1)
        ELSE Res(OK, [fs1 EXCEPT ![new.dir].data = p.list,
                                 ![r.node].nlink = @ + 1]))))))

moveNode(fs, path, newpath, oom) ==
    Let(getParentDirectory(fs, path), LAMBDA old :
        IF old.err # OK THEN Res(old.err, fs)
        ELSE Let(getParentDirectory(fs, newpath), LAMBDA new :
        IF new.err # OK THEN Res(new.err, fs)
        ELSE Let(removeEntry(fs[old.dir].data, old.name), LAMBDA r :
        IF r.node = NULL THEN Res(r.err, fs)
        ELSE Let([fs EXCEPT ![old.dir].data = r.list], LAMBDA fs1 :
        Let(addEntry(fs1[new.dir].data, new.name, r.node, oom), LAMBDA p :
        IF p.err # OK THEN Res(p.err, fs1)
        ELSE Res(OK, [fs1 EXCEPT ![new.dir].data = p.list]))))))

\* isEmpty(dir): at most two entries; its assert(n == 2) aborts on fewer.
isEmpty(dir) == Len(dir.data) <= 2

\* The tail of releaseNode: detach the name from the parent's list.
detachName(fs, dir, name) ==
    Let(removeEntry(fs[dir].data, name), LAMBDA r :
        IF r.node = NULL THEN Res(r.err, fs)
        ELSE Res(OK, [fs EXCEPT ![dir].data = r.list]))

\* The directory branch of releaseNode, node being an empty directory.
\* With an empty file name node is dirNode itself, and the detach that
\* follows reads the freed dirNode: "UAF".
releaseDir(fs, dir, name, node) ==
    IF Len(fs[node].data) < 2 THEN Res("ABORT", fs)
    ELSE IF fs[node].nlink # 2 THEN Res("ABORT", fs)
    ELSE Let(removeEntry(fs[node].data, DotDot), LAMBDA r :
         Let([fs EXCEPT ![node].data = r.list], LAMBDA fs1 :
         Let([fs1 EXCEPT ![dir].nlink = @ - 1], LAMBDA fs2 :
            IF Len(r.list) # 1 THEN Res("ABORT", fs2)
            ELSE Let([fs2 EXCEPT ![node] = NoInode], LAMBDA fs3 :
                 IF node = dir THEN Res("UAF", fs3)
                 ELSE detachName(fs3, dir, name)))))

\* releaseFile that frees at link count zero whatever the open count.
releaseFile_ignoresOpen(fs, dir, name, node) ==
    Let(IF fs[node].nlink - 1 = 0
        THEN [fs EXCEPT ![node] = NoInode]
        ELSE [fs EXCEPT ![node].nlink = @ - 1],
        LAMBDA fs1 : detachName(fs1, dir, name))

\* releaseFile that takes the link off and never frees.
releaseFile_keepsInode(fs, dir, name, node) ==
    Let([fs EXCEPT ![node].nlink = @ - 1],
        LAMBDA fs1 : detachName(fs1, dir, name))

\* The regular-file branch of releaseNode.
releaseFile(fs, dir, name, node) ==
    Let(IF fs[node].nlink - 1 = 0 /\ fs[node].nopen = 0
        THEN [fs EXCEPT ![node] = NoInode]
        ELSE [fs EXCEPT ![node].nlink = @ - 1],
        LAMBDA fs1 : detachName(fs1, dir, name))

\* releaseNode does not test what pathfind returned: a missing name is a
\* read through a null pointer, "SEGV".
releaseNode(fs, path) ==
    Let(getParentDirectory(fs, path), LAMBDA pd :
        IF pd.err # OK THEN Res(pd.err, fs)
        ELSE Let(pathfind(fs, pd.name, pd.dir).node, LAMBDA node :
             IF node = NULL THEN Res("SEGV", fs)
             ELSE IF isDir(fs[node])
             THEN IF ~isEmpty(fs[node]) THEN Res("ENOTEMPTY", fs)
                  ELSE releaseDir(fs, pd.dir, pd.name, node)
             ELSE releaseFile(fs, pd.dir, pd.name, node)))

\* newFilesystem: the root with "." and ".." at itself and nlink 3.
newFilesystem ==
    [i \in Ids |->
        IF i = RootId
        THEN [alloc |-> TRUE, mode |-> "dir", nlink |-> 3, nopen |-> 0,
              size |-> 0, parent |-> RootId, traversing |-> FALSE,
              data |-> <<Entry(Dot, RootId), Entry(DotDot, RootId)>>]
        ELSE NoInode]

----------------------------------------------------------------------------
(* main.c: the handlers *)

\* Results that end the process: a signal or a failed assert.
Fatal == {"SEGV", "ABORT", "UAF"}

FreeIds(fs) == {i \in Ids : ~fs[i].alloc}

Running == phase = "run" /\ fuel > 0

\* What every handler leaves behind: the heap, and its return value.
Finish(op, ret, fs) ==
    /\ ino' = fs
    /\ last' = [op |-> op, ret |-> ret]
    /\ okSoFar' = (okSoFar /\ ret = OK)
    /\ fuel' = fuel - 1
    /\ phase' = IF ret \in Fatal THEN "crashed" ELSE phase
    /\ UNCHANGED <<stack, reach>>

\* The call has stored, with addEntry's strcpy, a name that does not fit
\* into name[NAME_MAX] together with its terminator.
strcpyOverflows(fs) ==
    \E d \in Ids :
        /\ fs[d].alloc /\ isDir(fs[d])
        /\ \E i \in 1..Len(fs[d].data) :
              /\ Len(fs[d].data[i].name) >= NAME_MAX
              /\ \A j \in 1..Len(ino[d].data) :
                    ino[d].data[j] # fs[d].data[i]

\* A strcpy past the end of the array is undefined: the bytes are stored
\* (the terminator of a name of NAME_MAX characters lands in the padding
\* before node), or a build that checks strcpy aborts.
Return(op, ret, fs) ==
    IF strcpyOverflows(fs)
    THEN \E outcome \in {"stored", "aborts"} :
            IF outcome = "stored" THEN Finish(op, ret, fs)
            ELSE Finish(op, "ABORT", ino)
    ELSE Finish(op, ret, fs)

\* oom names the allocation that fails in this call, if any.  An inode
\* that a failed call leaves allocated but referenced by nothing is dropped
\* from the table: no later call can reach it.
mknod(fs, path, oom) ==
    IF oom = "inode" THEN Res("ENOSPC", fs)
    ELSE Let(Min(FreeIds(fs)), LAMBDA id :
         Let([fs EXCEPT ![id] = NewInode("reg")], LAMBDA fs0 :
         Let(addNode(fs0, path, id, oom = "entry"), LAMBDA r :
            IF r.err # OK THEN Res(r.err, fs) ELSE r)))

ramMknod(path, oom) ==
    /\ Running
    /\ FreeIds(ino) # {}
    /\ \E r \in {mknod(ino, path, oom)} : Return("mknod", r.err, r.fs)
    /\ UNCHANGED handles

\* The tail of ramMkdir: ".." at node->parent, "." at node.
installDots(fs, id, par) ==
    [fs EXCEPT ![par].nlink = @ + 1,
               ![id].nlink = @ + 1,
               ![id].data = <<Entry(Dot, id), Entry(DotDot, par)>>]

\* The two mallocs for ".." and "." are not checked: oom = "dots" is the
\* strcpy through the null pointer.
mkdir(fs, path, oom) ==
    IF oom = "inode" THEN Res("ENOSPC", fs)
    ELSE Let(Min(FreeIds(fs)), LAMBDA id :
         Let([fs EXCEPT ![id] = NewInode("dir")], LAMBDA fs0 :
         Let(addNode(fs0, path, id, oom = "entry"), LAMBDA r :
            IF r.err # OK THEN Res(r.err, fs)
            ELSE IF oom = "dots" THEN Res("SEGV", r.fs)
            ELSE Res(OK, installDots(r.fs, id, r.fs[id].parent)))))

ramMkdir(path, oom) ==
    /\ Running
    /\ FreeIds(ino) # {}
    /\ \E r \in {mkdir(ino, path, oom)} : Return("mkdir", r.err, r.fs)
    /\ UNCHANGED handles

\* oom: the calloc of addEntry fails.
link(fs, path, newpath, oom) ==
    Let(pathfind(fs, path, RootId), LAMBDA f :
        IF f.node = NULL THEN Res(f.err, fs)
        ELSE IF isDir(fs[f.node]) THEN Res("EPERM", fs)
        ELSE addNode(fs, newpath, f.node, oom))

ramLink(path, newpath, oom) ==
    /\ Running
    /\ \E r \in {link(ino, path, newpath, oom)} : Return("link", r.err, r.fs)
    /\ UNCHANGED handles

unlink(fs, path) ==
    Let(pathfind(fs, path, RootId), LAMBDA f :
        IF f.node = NULL THEN Res(f.err, fs)
        ELSE IF isDir(fs[f.node]) THEN Res("EINVAL", fs)
        ELSE IF fs[f.node].nopen # 0 THEN Res("EBUSY", fs)
        ELSE releaseNode(fs, path))

ramUnlink(path) ==
    /\ Running
    /\ \E r \in {unlink(ino, path)} : Return("unlink", r.err, r.fs)
    /\ UNCHANGED handles

rmdir(fs, path) ==
    IF path = PRoot THEN Res("EBUSY", fs)
    ELSE Let(pathfind(fs, path, RootId), LAMBDA f :
         IF f.node = NULL THEN Res(f.err, fs)
         ELSE IF ~isDir(fs[f.node]) THEN Res("ENOTDIR", fs)
         ELSE releaseNode(fs, path))

ramRmdir(path) ==
    /\ Running
    /\ \E r \in {rmdir(ino, path)} : Return("rmdir", r.err, r.fs)
    /\ UNCHANGED handles

isValidRename(path, newpath) ==
    /\ ~(/\ Len(newpath) > Len(path)
         /\ SubSeq(newpath, 1, Len(path)) = path
         /\ newpath[Len(path) + 1] = Split)
    /\ \A i \in 1..Len(newpath) : newpath[i] # "."
    /\ \A i \in 1..Len(path) : path[i] # "."

\* The overwrite step of ramRename: release what newpath is bound to.
renameOver(fs, newpath) ==
    Let(pathfind(fs, newpath, RootId).node, LAMBDA t :
        IF t = NULL THEN Res(OK, fs)
        ELSE IF isDir(fs[t]) THEN Res("EISDIR", fs)
        ELSE releaseNode(fs, newpath))

rename(fs, path, newpath, oom) ==
    Let(pathfind(fs, path, RootId), LAMBDA f :
        IF f.node = NULL THEN Res(f.err, fs)
        ELSE IF ~isValidRename(path, newpath) THEN Res("EINVAL", fs)
        ELSE Let(renameOver(fs, newpath), LAMBDA rel :
             IF rel.err # OK THEN rel
             ELSE moveNode(rel.fs, path, newpath, oom)))

ramRename(path, newpath, oom) ==
    /\ Running
    /\ \E r \in {rename(ino, path, newpath, oom)} :
          Return("rename", r.err, r.fs)
    /\ UNCHANGED handles

open(fs, path) ==
    Let(pathfind(fs, path, RootId), LAMBDA f :
        IF f.node = NULL THEN [err |-> f.err, fs |-> fs, fh |-> NULL]
        ELSE IF isDir(fs[f.node])
        THEN [err |-> "EISDIR", fs |-> fs, fh |-> NULL]
        ELSE [err |-> OK, fs |-> [fs EXCEPT ![f.node].nopen = @ + 1],
              fh |-> f.node])

ramOpen(path) ==
    /\ Running
    /\ BagCardinality(handles) < MaxOpen
    /\ \E r \in {open(ino, path)} :
          /\ Return("open", r.err, r.fs)
          /\ handles' = IF r.err # OK THEN handles
                        ELSE handles (+) SetToBag({[path |-> path,
                                                    node |-> r.fh]})

\* ramRelease on the handle fi: the path it was opened under and fi->fh.
release(fs, fi) ==
    IF fs[fi.node].nopen = 0 THEN Res("EBADF", fs)
    ELSE Let([fs EXCEPT ![fi.node].nopen = @ - 1], LAMBDA fs1 :
         IF fs1[fi.node].nopen = 0 /\ fs1[fi.node].nlink = 0
         THEN releaseNode(fs1, fi.path)
         ELSE Res(OK, fs1))

ramRelease(fi) ==
    /\ Running
    /\ BagIn(fi, handles)
    /\ \E r \in {release(ino, fi)} : Return("release", r.err, r.fs)
    /\ handles' = handles (-) SetToBag({fi})

\* The offsets and byte counts that the calls below are made with.  Their
\* sums stay far below 2^32, so neither offset + size in size_t nor the
\* cast (uint)(size + offset) wraps.
Offsets == 0..MaxBytes
Counts == 0..MaxBytes

\* ramRead on the inode of a handle: the error, or the number of bytes
\* that memcpy copies from data + offset, which is the value returned.
\* The contents are a buffer of fs[node].size bytes.
read(fs, node, size, offset) ==
    IF ~fs[node].alloc THEN [err |-> "UAF", copied |-> 0]
    ELSE IF fs[node].nopen = 0 THEN [err |-> "EBADF", copied |-> 0]
    ELSE IF isDir(fs[node]) THEN [err |-> "EISDIR", copied |-> 0]
    ELSE [err |-> OK,
          copied |-> IF offset + size > fs[node].size
                     THEN fs[node].size ELSE size]

\* A read that has copied n bytes from offset and returned n.
Copied(offset, n) ==
    /\ last' = [op |-> "read", ret |-> OK, offset |-> offset, copied |-> n]
    /\ fuel' = fuel - 1
    /\ UNCHANGED <<ino, okSoFar, phase, stack, reach>>

\* memcpy from beyond the end of the buffer is undefined: the bytes that
\* follow the buffer on the heap are copied, or the process dies on an
\* unmapped page.
ramRead(fi, size, offset) ==
    /\ Running
    /\ BagIn(fi, handles)
    /\ \E r \in {read(ino, fi.node, size, offset)} :
          IF r.err # OK THEN Finish("read", r.err, ino)
          ELSE IF r.copied > 0 /\ offset + r.copied > ino[fi.node].size
          THEN \E outcome \in {"copied", "dies"} :
                  IF outcome = "copied" THEN Copied(offset, r.copied)
                  ELSE Finish("read", "SEGV", ino)
          ELSE Copied(offset, r.copied)
    /\ UNCHANGED handles

\* ramWrite: the buffer grows to offset + size when the write ends beyond
\* it; oom is the realloc failing.  A success returns size.
write(fs, node, size, offset, oom) ==
    IF ~fs[node].alloc THEN Res("UAF", fs)
    ELSE IF fs[node].nopen = 0 THEN Res("EBADF", fs)
    ELSE IF isDir(fs[node]) THEN Res("EISDIR", fs)
    ELSE IF offset + size > fs[node].size
    THEN IF oom THEN Res("ENOSPC", fs)
         ELSE Res(OK, [fs EXCEPT ![node].size = size + offset])
    ELSE Res(OK, fs)

ramWrite(fi, size, offset, oom) ==
    /\ Running
    /\ BagIn(fi, handles)
    /\ \E r \in {write(ino, fi.node, size, offset, oom)} :
          Finish("write", r.err, r.fs)
    /\ UNCHANGED handles

\* ramTruncate: the buffer is freed for offset 0 and reallocated to offset
\* bytes otherwise; oom is the realloc failing.
truncate(fs, path, offset, oom) ==
    Let(pathfind(fs, path, RootId), LAMBDA f :
        IF f.node = NULL THEN Res(f.err, fs)
        ELSE IF isDir(fs[f.node]) THEN Res("EISDIR", fs)
        ELSE IF offset # 0 /\ oom THEN Res("ENOSPC", fs)
        ELSE Res(OK, [fs EXCEPT ![f.node].size = offset]))

ramTruncate(path, offset, oom) ==
    /\ Running
    /\ \E r \in {truncate(ino, path, offset, oom)} :
          Finish("truncate", r.err, r.fs)
    /\ UNCHANGED handles

----------------------------------------------------------------------------
(* ramDestroy: releaseAll over the graph, one step of the recursion at a  *)
(* time.  A frame is the inode being visited and the place in releaseAll. *)

Frame(node, pc) == [node |-> node, pc |-> pc]

Top == stack[Len(stack)]
Pop == SubSeq(stack, 1, Len(stack) - 1)
SetTop(f) == [stack EXCEPT ![Len(stack)] = f]

\* After the outermost releaseAll returns, ramDestroy frees fs and is done.
Popped(s) ==
    /\ stack' = s
    /\ phase' = IF s = <<>> THEN "done" ELSE phase

\* The inodes that a walk from the root over the entry lists comes to.
Targets(fs, d) ==
    IF fs[d].alloc /\ isDir(fs[d])
    THEN {fs[d].data[i].node : i \in 1..Len(fs[d].data)}
    ELSE {}

RECURSIVE ReachFrom(_, _, _)
ReachFrom(fs, S, k) ==
    IF k = 0 THEN S
    ELSE ReachFrom(fs, S \cup UNION {Targets(fs, d) : d \in S}, k - 1)

Reachable(fs) == ReachFrom(fs, {RootId}, MaxInodes)

ramDestroy ==
    /\ phase = "run"
    /\ phase' = "destroy"
    /\ stack' = <<Frame(RootId, "enter")>>
    /\ last' = [op |-> "destroy", ret |-> OK]
    /\ reach' = Reachable(ino)
    /\ UNCHANGED <<ino, handles, okSoFar, fuel>>

\* root->nlink--; if (root->traversing) return; root->traversing = true;
\* Entered on an inode that was already freed, releaseAll reads and writes
\* freed memory: the process dies, or the call returns at once (the stale
\* bytes read as a set flag, or as a file with links left).
TdEnter ==
    /\ phase = "destroy" /\ stack # <<>> /\ Top.pc = "enter"
    /\ LET n == Top.node
           fs1 == [ino EXCEPT ![n].nlink = @ - 1]
       IN IF ~ino[n].alloc
          THEN /\ \E outcome \in {"dies", "returns"} :
                    IF outcome = "dies"
                    THEN phase' = "crashed" /\ stack' = stack
                    ELSE Popped(Pop)
               /\ last' = [op |-> "destroy", ret |-> "UAF"]
               /\ ino' = ino
          ELSE IF ino[n].traversing
          THEN ino' = fs1 /\ Popped(Pop) /\ last' = last
          ELSE /\ ino' = [fs1 EXCEPT ![n].traversing = TRUE]
               /\ stack' = SetTop(Frame(n, IF isDir(ino[n]) THEN "loop"
                                           ELSE "exit"))
               /\ phase' = phase
               /\ last' = last
    /\ UNCHANGED <<handles, okSoFar, fuel, reach>>

\* while (p->next) releaseAll(p->next->node) ...; then releaseAll(p->node).
\* A directory whose data is NULL makes p->next a read through NULL.
TdLoop ==
    /\ phase = "destroy" /\ stack # <<>> /\ Top.pc = "loop"
    /\ LET n == Top.node
           list == ino[n].data
       IN IF list = <<>>
          THEN /\ phase' = "crashed" /\ stack' = stack
               /\ last' = [op |-> "destroy", ret |-> "SEGV"]
          ELSE /\ stack' =
                    IF Len(list) > 1
                    THEN Append(SetTop(Frame(n, "next")),
                                Frame(list[2].node, "enter"))
                    ELSE Append(SetTop(Frame(n, "exit")),
                                Frame(list[1].node, "enter"))
               /\ UNCHANGED <<phase, last>>
    /\ UNCHANGED <<ino, handles, okSoFar, fuel, reach>>

\* old = p->next; p->next = p->next->next; free(old);
TdNext ==
    /\ phase = "destroy" /\ stack # <<>> /\ Top.pc = "next"
    /\ LET n == Top.node
           list == ino[n].data
       IN ino' = [ino EXCEPT ![n].data = <<list[1]>> \o SubSeq(list, 3, Len(list))]
    /\ stack' = SetTop(Frame(Top.node, "loop"))
    /\ UNCHANGED <<handles, phase, last, okSoFar, fuel, reach>>

\* root->traversing = false; if (root->nlink == 0) free data and root.
TdExit ==
    /\ phase = "destroy" /\ stack # <<>> /\ Top.pc = "exit"
    /\ LET n == Top.node
       IN ino' = IF ino[n].nlink = 0 THEN [ino EXCEPT ![n] = NoInode]
                 ELSE [ino EXCEPT ![n].traversing = FALSE]
    /\ Popped(Pop)
    /\ UNCHANGED <<handles, last, okSoFar, fuel, reach>>

TdStep == TdEnter \/ TdLoop \/ TdNext \/ TdExit

----------------------------------------------------------------------------

OomAt == {"none", "inode", "entry", "dots"}

InitWith(n) ==
    /\ ino = newFilesystem
    /\ handles = EmptyBag
    /\ phase = "run"
    /\ stack = <<>>
    /\ last = [op |-> "init", ret |-> OK]
    /\ okSoFar = TRUE
    /\ fuel = n
    /\ reach = {}

Init == InitWith(MaxOps)

Next ==
    \/ \E p \in Paths, oom \in OomAt \ {"dots"} : ramMknod(p, oom)
    \/ \E p \in Paths, oom \in OomAt : ramMkdir(p, oom)
    \/ \E p \in Paths, q \in Paths, oom \in BOOLEAN : ramLink(p, q, oom)
    \/ \E p \in Paths : ramUnlink(p)
    \/ \E p \in Paths : ramRmdir(p)
    \/ \E p \in Paths, q \in Paths, oom \in BOOLEAN : ramRename(p, q, oom)
    \/ \E p \in Paths : ramOpen(p)
    \/ \E fi \in BagToSet(handles) : ramRelease(fi)
    \/ ramDestroy
    \/ TdStep

Spec == Init /\ [][Next]_vars

\* Paths that the handlers take as they take any other: two separators in
\* a row, which pathfind and extractPrefix read differently, and a name of
\* NAME_MAX characters.  The six operations on names over these paths too.
PSlashes == <<Split, Split>>
PSlashesA == <<Split, Split, "a">>
PLong == <<Split>> \o [i \in 1..NAME_MAX |-> "a"]
AnyPaths == Paths \cup {PSlashes, PSlashesA, PLong}

NextAnyPath ==
    \/ \E p \in AnyPaths : ramMknod(p, "none")
    \/ \E p \in AnyPaths : ramMkdir(p, "none")
    \/ \E p \in AnyPaths, q \in AnyPaths : ramLink(p, q, FALSE)
    \/ \E p \in AnyPaths : ramUnlink(p)
    \/ \E p \in AnyPaths : ramRmdir(p)
    \/ \E p \in AnyPaths, q \in AnyPaths : ramRename(p, q, FALSE)

SpecAnyPath == Init /\ [][NextAnyPath]_vars

\* Longer runs of the directory operations alone, every allocation
\* succeeding, and the teardown after them.
InitDirs == InitWith(MaxDirOps)

NextDirs ==
    \/ \E p \in Paths : ramMkdir(p, "none")
    \/ \E p \in Paths : ramRmdir(p)
    \/ \E p \in Paths, q \in Paths : ramRename(p, q, FALSE)
    \/ ramDestroy
    \/ TdStep

SpecDirs == InitDirs /\ [][NextDirs]_vars

\* ramDestroy runs releaseAll to its end without waiting for anything.
FairSpecDirs == SpecDirs /\ WF_vars(TdStep)

\* Longer runs of the operations on regular files and their handles,
\* every allocation succeeding.
InitFiles == InitWith(MaxFileOps)

NextFiles ==
    \/ \E p \in Paths : ramMknod(p, "none")
    \/ \E p \in Paths, q \in Paths : ramRename(p, q, FALSE)
    \/ \E p \in Paths : ramOpen(p)
    \/ \E fi \in BagToSet(handles) : ramRelease(fi)

SpecFiles == InitFiles /\ [][NextFiles]_vars

\* Runs of the operations on the contents of regular files.
InitIo == InitWith(MaxIoOps)

NextIo ==
    \/ \E p \in Paths : ramMknod(p, "none")
    \/ \E p \in Paths : ramOpen(p)
    \/ \E fi \in BagToSet(handles), n \in Counts, o \in Offsets,
          oom \in BOOLEAN : ramWrite(fi, n, o, oom)
    \/ \E fi \in BagToSet(handles), n \in Counts, o \in Offsets :
          ramRead(fi, n, o)
    \/ \E p \in Paths, o \in Offsets, oom \in BOOLEAN : ramTruncate(p, o, oom)
    \/ \E fi \in BagToSet(handles) : ramRelease(fi)

SpecIo == InitIo /\ [][NextIo]_vars

----------------------------------------------------------------------------
(* The graph as the claims speak of it *)

AllocDirs == {d \in Ids : ino[d].alloc /\ isDir(ino[d])}
AllocFiles == {f \in Ids : ino[f].alloc /\ isFile(ino[f])}

\* Every entry record of the graph, as <<directory, position>>.
Entries == UNION {{<<d, i>> : i \in 1..Len(ino[d].data)} : d \in AllocDirs}
EntryAt(x) == ino[x[1]].data[x[2]]

\* The entries that are names: all but "." and "..".
NameEntries == {x \in Entries : EntryAt(x).name \notin {Dot, DotDot}}

SubdirCount(d) ==
    Cardinality({x \in NameEntries :
                    /\ x[1] = d
                    /\ ino[EntryAt(x).node].alloc
                    /\ isDir(ino[EntryAt(x).node])})

EdgeCount(n) == Cardinality({x \in Entries : EntryAt(x).node = n})

\* The state lies after a sequence of handler calls that all returned 0.
AfterSuccessfulOps == phase = "run" /\ okSoFar

----------------------------------------------------------------------------
(* C1: after any sequence of successful operations every directory's link  *)
(* count is 2 plus the number of subdirectories it contains (3 plus that   *)
(* number for the root), also after a rename that moves a directory from   *)
(* one parent to another.                                                  *)

C1_DirLinkCount ==
    AfterSuccessfulOps =>
        \A d \in AllocDirs :
            ino[d].nlink = (IF d = RootId THEN 3 ELSE 2) + SubdirCount(d)

----------------------------------------------------------------------------
(* C2: after any sequence of successful operations every directory has     *)
(* exactly one "." entry, at itself, and exactly one ".." entry, at the    *)
(* directory that holds its name (the root's ".." at the root), also after *)
(* it was renamed into another parent.                                     *)

DotEntries(d, name) == {x \in Entries : x[1] = d /\ EntryAt(x).name = name}

Holders(d) ==
    IF d = RootId THEN {RootId}
    ELSE {x[1] : x \in {y \in NameEntries : EntryAt(y).node = d}}

C2_DotAndDotDot ==
    AfterSuccessfulOps =>
        \A d \in AllocDirs :
            /\ Cardinality(DotEntries(d, Dot)) = 1
            /\ \A x \in DotEntries(d, Dot) : EntryAt(x).node = d
            /\ Cardinality(DotEntries(d, DotDot)) = 1
            /\ \A x \in DotEntries(d, DotDot) : Holders(d) = {EntryAt(x).node}

----------------------------------------------------------------------------
(* C3: after any sequence of successful operations the link count of every *)
(* live regular file is the number of directory entries that reference it. *)

C3_FileLinkCount ==
    AfterSuccessfulOps => \A f \in AllocFiles : ino[f].nlink = EdgeCount(f)

\* A successful rename has left a file that is bound under two names.
C3_Witness ==
    /\ AfterSuccessfulOps
    /\ last = [op |-> "rename", ret |-> OK]
    /\ \E f \in AllocFiles : ino[f].nlink = 2 /\ EdgeCount(f) = 2

----------------------------------------------------------------------------
(* Steps of the handlers, as the claims about release speak of them *)

\* This step is one call of a handler.
HandlerStep == phase = "run" /\ fuel' = fuel - 1

\* This step is the close of the handle fi.
Closes(fi) ==
    /\ HandlerStep
    /\ last'.op = "release"
    /\ BagIn(fi, handles)
    /\ handles' = handles (-) SetToBag({fi})

\* This step is the close of the last handle of a file that has no name
\* left: the close in which ramRelease calls releaseNode on the handle's path.
ClosesLastOfOrphan(fi) ==
    /\ Closes(fi)
    /\ ino[fi.node].alloc /\ isFile(ino[fi.node])
    /\ ino[fi.node].nopen = 1
    /\ ino[fi.node].nlink = 0

\* The names of n: the <<directory, name>> pairs of the entries at n.
Names(n) ==
    {<<x[1], EntryAt(x).name>> : x \in {y \in Entries : EntryAt(y).node = n}}

----------------------------------------------------------------------------
(* C4: when release is called on the only name of an open regular file,   *)
(* the name is detached and the file is not freed; when the last handle   *)
(* of such a file is then closed, the file is freed and the close returns *)
(* without error.                                                         *)

C4_CloseFreesOrphan ==
    [][/\ \A f \in AllocFiles :
            (/\ HandlerStep
             /\ ino[f].nlink = 1 /\ ino[f].nopen >= 1
             /\ ~ino'[f].alloc \/ ino'[f].nlink = 0)
            => /\ ino'[f].alloc /\ ino'[f].nopen = ino[f].nopen
               /\ Names(f)' = {}
       /\ \A fi \in BagToSet(handles) :
            (ClosesLastOfOrphan(fi) /\ checkPath(fi.path) = OK)
            => ~ino'[fi.node].alloc /\ last'.ret = OK]_vars

----------------------------------------------------------------------------
(* C5: release, called directly or from a rename that overwrites, frees a *)
(* regular file only if its link count and its open count are both zero   *)
(* after the decrement.  A file with another name left stays alive with   *)
(* its link count one less and is still found under every remaining name; *)
(* a file with a non-zero open count is never freed.                      *)

\* The open count that releaseNode sees in this step: ramRelease has taken
\* the closed handle off before it calls releaseNode.
OpenAtRelease(f) ==
    ino[f].nopen - (IF \E fi \in BagToSet(handles) : Closes(fi) /\ fi.node = f
                    THEN 1 ELSE 0)

\* The paths that lead to f through a name f still has after the step
\* lead to f after the step.  (A rename also moves a name, and with a
\* directory the paths below it: there the names themselves are compared.)
StillResolves(f) ==
    \A q \in Paths :
        LET pd == getParentDirectory(ino, q)
        IN (/\ pd.err = OK
            /\ pathfind(ino, q, RootId).node = f
            /\ <<pd.dir, pd.name>> \in Names(f)')
           => pathfind(ino', q, RootId).node = f

\* The step is a rename whose moveNode ran out of memory after its release:
\* what moveNode then does to the names is the matter of C9.
MoveFailed == last'.op = "rename" /\ last'.ret = "ENOSPC"

C5_ReleaseFreesOnlyUnreferenced ==
    [][HandlerStep =>
        \A f \in AllocFiles :
            /\ ~ino'[f].alloc => ino[f].nlink = 1 /\ OpenAtRelease(f) = 0
            /\ OpenAtRelease(f) > 0 => ino'[f].alloc
            /\ (ino[f].nlink >= 2 /\ last'.ret \notin Fatal) =>
                  /\ ino'[f].alloc /\ isFile(ino'[f])
                  /\ ino'[f].nlink >= ino[f].nlink - 1
            /\ (ino'[f].alloc /\ ino'[f].nlink < ino[f].nlink /\ ~MoveFailed) =>
                  /\ Names(f)' \subseteq Names(f)
                  /\ Cardinality(Names(f) \ Names(f)') = 1
                  /\ last'.op # "rename" => StillResolves(f)]_vars

\* A rename onto the only name of an open file has released it: the file
\* has no name left and is still allocated.
C5_Witness ==
    /\ phase = "run"
    /\ last = [op |-> "rename", ret |-> OK]
    /\ \E f \in AllocFiles :
          ino[f].nlink = 0 /\ ino[f].nopen >= 1 /\ Names(f) = {}

----------------------------------------------------------------------------
(* C6: release of a path whose parent directory resolves but holds no     *)
(* entry of the basename fails with no-such-entry and leaves the graph    *)
(* unchanged; it neither reads through a missing inode nor aborts.        *)

\* releaseNode is called on the path of fi, and the name is absent.
ReleasesAbsentName(fi) ==
    /\ ClosesLastOfOrphan(fi)
    /\ LET pd == getParentDirectory(ino, fi.path)
       IN /\ pd.err = OK
          /\ pathfind(ino, pd.name, pd.dir).node = NULL

C6_ReleaseAbsentName ==
    [][\A fi \in BagToSet(handles) :
          ReleasesAbsentName(fi)
          => /\ last'.ret = "ENOENT"
             /\ phase' = "run"
             /\ ino' = [ino EXCEPT ![fi.node].nopen = 0]]_vars

----------------------------------------------------------------------------
(* C7: teardown terminates on every graph that a sequence of successful   *)
(* operations builds from a fresh filesystem, also with nested            *)
(* directories, the root's ".." at itself, files with several links, and  *)
(* directories that were renamed.                                         *)

C7_TeardownTerminates == (phase = "destroy" /\ okSoFar) ~> (phase = "done")

----------------------------------------------------------------------------
(* C8: teardown of a graph that a sequence of successful operations built *)
(* frees every inode and every entry record reachable from the root       *)
(* exactly once: when it has returned none of them is still allocated,    *)
(* and none was freed twice or touched after it was freed.                *)

C8_TeardownFreesAll ==
    (phase = "done" /\ okSoFar) =>
        /\ \A i \in reach : ~ino[i].alloc
        /\ last.ret # "UAF"

----------------------------------------------------------------------------
(* C9: when the allocation of an entry record fails during add or move,   *)
(* the operation fails with out-of-space and the graph is as it was       *)
(* before the call; after a failed move the source name still resolves to *)
(* the same inode and no entry has been removed.                          *)

\* The step is a call of add at p (for q) whose entry allocation fails.
AddOutOfMemory(p, q) ==
    ramMknod(p, "entry") \/ ramMkdir(p, "entry") \/ ramLink(p, q, TRUE)

\* The step is a call of move from p to q, nothing being bound at q, whose
\* entry allocation fails.
MoveOutOfMemory(p, q) ==
    /\ pathfind(ino, q, RootId).node = NULL
    /\ ramRename(p, q, TRUE)

C9_OutOfMemoryLeavesGraph ==
    [][\A p \in Paths, q \in Paths :
          /\ (AddOutOfMemory(p, q) /\ last'.ret \notin {"EEXIST", "ENOENT",
                                        "ENOTDIR", "EINVAL", "EPERM"})
             => last'.ret = "ENOSPC" /\ ino' = ino
          /\ (MoveOutOfMemory(p, q) /\ last'.ret = "ENOSPC")
             => /\ ino' = ino
                /\ pathfind(ino', p, RootId) = pathfind(ino, p, RootId)]_vars

----------------------------------------------------------------------------
(* C10: every failing add leaves the graph unchanged: no entry is         *)
(* appended to any directory and the link count and parent of the node    *)
(* supplied are as before.  A basename already present gives              *)
(* already-exists, a missing parent path no-such-entry, a parent that is  *)
(* not a directory not-a-directory, and a (non-empty) path that does not  *)
(* start with the separator invalid-argument.                             *)

LastSplit(p) == Max({i \in 1..Len(p) : p[i] = Split})
ParentPath(p) == SubSeq(p, 1, LastSplit(p) - 1)
BaseName(p) == SubSeq(p, LastSplit(p) + 1, Len(p))

\* The error that the claim names for an add at p, "" where it names none.
AddError(fs, p) ==
    IF p = <<>> THEN ""
    ELSE IF Head(p) # Split THEN "EINVAL"
    ELSE LET d == pathfind(fs, ParentPath(p), RootId)
         IN IF d.node = NULL /\ d.err = "ENOENT" THEN "ENOENT"
            ELSE IF d.node = NULL THEN ""
            ELSE IF ~isDir(fs[d.node]) THEN "ENOTDIR"
            ELSE IF \E i \in 1..Len(fs[d.node].data) :
                       fs[d.node].data[i].name = BaseName(p)
                 THEN "EEXIST"
                 ELSE ""

\* add called at p with a node just made, as mknod and mkdir call it.
AddOfNewNode(p, mode) ==
    \A n \in FreeIds(ino) :
        LET fs0 == [ino EXCEPT ![n] = NewInode(mode)]
            r == addNode(fs0, p, n, FALSE)
        IN /\ r.err # OK => r.fs = fs0
           /\ AddError(ino, p) # "" => r.err = AddError(ino, p)

\* add called at p with a file that has a name already, as link calls it.
AddOfOldNode(p) ==
    \A f \in AllocFiles :
        LET r == addNode(ino, p, f, FALSE)
        IN /\ r.err # OK => r.fs = ino
           /\ AddError(ino, p) # "" => r.err = AddError(ino, p)

C10_FailingAddLeavesGraph ==
    phase = "run" =>
        \A p \in Paths :
            /\ AddOfNewNode(p, "reg")
            /\ AddOfNewNode(p, "dir")
            /\ AddOfOldNode(p)

\* A link to a name that is taken has failed, and the file is as it was.
C10_Witness ==
    /\ phase = "run"
    /\ last = [op |-> "link", ret |-> "EEXIST"]
    /\ \E f \in AllocFiles : ino[f].nlink = 1 /\ EdgeCount(f) = 1

----------------------------------------------------------------------------
(* C11: splitting a path whose basename is empty (a path that ends with   *)
(* the separator, "/" included) fails with no-such-entry, so add, move    *)
(* and release called with such a path fail with no-such-entry and change *)
(* nothing.                                                               *)

EmptyBasename(p) == p # <<>> /\ p[Len(p)] = Split

\* The handler gets as far as its call of releaseNode(p) or moveNode(p, q).
RmdirReleases(p) ==
    /\ p # PRoot
    /\ pathfind(ino, p, RootId).node # NULL
    /\ isDir(ino[pathfind(ino, p, RootId).node])

RenameMoves(p, q) ==
    /\ pathfind(ino, p, RootId).node # NULL
    /\ isValidRename(p, q)
    /\ pathfind(ino, q, RootId).node = NULL

C11_EmptyBasenameFails ==
    [][\A p \in {x \in Paths : EmptyBasename(x)} :
          /\ (ramMknod(p, "none") \/ ramMkdir(p, "none"))
             => last'.ret = "ENOENT" /\ ino' = ino
          /\ (RmdirReleases(p) /\ ramRmdir(p))
             => last'.ret = "ENOENT" /\ ino' = ino
          /\ \A q \in Paths :
                (RenameMoves(p, q) /\ ramRename(p, q, FALSE))
                => last'.ret = "ENOENT" /\ ino' = ino]_vars

----------------------------------------------------------------------------
(* C12: for an existing path a and a path b that does not exist and whose *)
(* parent directory exists, move(a, b) followed by move(b, a) restores    *)
(* the graph: every directory has the same entries in the same order, at  *)
(* the same inodes with the same link counts.                             *)

\* A path as the collaborator hands it over: absolute, with a basename.
WellFormed(p) == checkPath(p) = OK /\ ~EmptyBasename(p)

Movable(a, b) ==
    /\ WellFormed(a) /\ WellFormed(b)
    /\ isValidRename(a, b)
    /\ pathfind(ino, a, RootId).node # NULL
    /\ pathfind(ino, b, RootId).node = NULL
    /\ getParentDirectory(ino, b).err = OK

MoveThereAndBack(a, b) ==
    Let(moveNode(ino, a, b, FALSE), LAMBDA there :
        IF there.err # OK THEN there
        ELSE moveNode(there.fs, b, a, FALSE))

MovedToEnd(list, name) ==
    SelectSeq(list, LAMBDA e : e.name # name)
        \o SelectSeq(list, LAMBDA e : e.name = name)

\* The graph with the entry that a names put last in its directory.
WithLast(a) ==
    LET pd == getParentDirectory(ino, a)
    IN [ino EXCEPT ![pd.dir].data = MovedToEnd(@, pd.name)]

----------------------------------------------------------------------------
(* C13: adding a new regular file under a name that its parent directory  *)
(* does not hold and then releasing the same path, the file never opened, *)
(* gives back the state before the add: the same names in the same order  *)
(* in every directory, the same link counts, and the added inode freed.   *)

Addable(p) ==
    /\ WellFormed(p)
    /\ FreeIds(ino) # {}
    /\ getParentDirectory(ino, p).err = OK
    /\ pathfind(ino, p, RootId).node = NULL

AddThenRelease(p) ==
    Let(mknod(ino, p, "none"), LAMBDA added :
        IF added.err # OK THEN added
        ELSE unlink(added.fs, p))

C13_AddReleaseRoundTrip ==
    phase = "run" =>
        \A p \in Paths : Addable(p) => AddThenRelease(p) = Res(OK, ino)

\* mknod and unlink of one path, and nothing else, have been called: the
\* filesystem is as newFilesystem made it.
C13_Witness ==
    /\ AfterSuccessfulOps
    /\ last = [op |-> "unlink", ret |-> OK]
    /\ fuel = MaxOps - 2
    /\ ino = newFilesystem

----------------------------------------------------------------------------
(* C14: after any sequence of mknod, mkdir, link, rename (also over an    *)
(* existing file), unlink and rmdir, no directory holds two entries with  *)
(* the same name.                                                         *)

C14_UniqueNames ==
    phase = "run" =>
        \A d \in AllocDirs :
            \A i \in 1..Len(ino[d].data), j \in 1..Len(ino[d].data) :
                ino[d].data[i].name = ino[d].data[j].name => i = j

----------------------------------------------------------------------------
(* C15: in every reachable state no entry name is empty, contains the     *)
(* separator, or is longer than the name buffer holds together with its   *)
(* terminator: add and move given a basename that is empty or reaches the *)
(* name-length bound never create such an entry.                          *)

C15_NamesFit ==
    \A x \in Entries :
        /\ EntryAt(x).name # <<>>
        /\ \A i \in 1..Len(EntryAt(x).name) : EntryAt(x).name[i] # Split
        /\ Len(EntryAt(x).name) + 1 <= NAME_MAX

----------------------------------------------------------------------------
(* C16: release on a directory that holds an entry other than "." and     *)
(* ".." fails with not-empty and changes nothing; once the directory      *)
(* holds nothing but "." and "..", release on it succeeds and the link    *)
(* count of its parent drops by exactly one.                              *)

HasContents(d) ==
    \E i \in 1..Len(ino[d].data) : ino[d].data[i].name \notin {Dot, DotDot}

C16_ReleaseDirectory ==
    [][\A p \in Paths :
          (WellFormed(p) /\ RmdirReleases(p) /\ ramRmdir(p)) =>
              LET d == pathfind(ino, p, RootId).node
                  par == getParentDirectory(ino, p).dir
              IN IF HasContents(d)
                 THEN last'.ret = "ENOTEMPTY" /\ ino' = ino
                 ELSE /\ last'.ret = OK
                      /\ ~ino'[d].alloc
                      /\ ino'[par].nlink = ino[par].nlink - 1]_vars

----------------------------------------------------------------------------
(* C17: whenever release reaches a directory that holds only "." and      *)
(* "..", its link count is exactly 2: the assertion node->nlink == 2 in   *)
(* releaseNode holds in every state that a sequence of successful         *)
(* operations reaches, also after directories were renamed between        *)
(* parents and removed.                                                   *)

\* The inode that releaseNode(p) takes up, NULL if it takes up none.
ReleasedNode(p) ==
    LET pd == getParentDirectory(ino, p)
    IN IF pd.err = OK THEN pathfind(ino, pd.name, pd.dir).node ELSE NULL

C17_AssertLinkCountTwo ==
    [][\A p \in Paths :
          (/\ okSoFar
           /\ RmdirReleases(p) /\ ramRmdir(p)
           /\ ReleasedNode(p) # NULL
           /\ isDir(ino[ReleasedNode(p)])
           /\ ~HasContents(ReleasedNode(p)))
          => /\ ino[ReleasedNode(p)].nlink = 2
             /\ last'.ret # "ABORT"]_vars

----------------------------------------------------------------------------
(* C18: closing the last open handle of a file whose link count is        *)
(* already zero affects only that file: no other inode's link count       *)
(* changes, no directory's entry list changes and no other inode is       *)
(* freed, also when the path the file was opened under has since been     *)
(* bound to another inode.                                                *)

C18_CloseAffectsOnlyItsFile ==
    [][\A fi \in BagToSet(handles) :
          ClosesLastOfOrphan(fi) =>
              \A n \in Ids \ {fi.node} :
                  /\ ino'[n].alloc = ino[n].alloc
                  /\ ino'[n].nlink = ino[n].nlink
                  /\ ino'[n].data = ino[n].data]_vars

----------------------------------------------------------------------------
(* C19: whenever ramRename returns an error the graph is unchanged: every *)
(* name that resolved before the call still resolves to the same inode    *)
(* and no inode has been freed.  Renaming a path to itself never removes  *)
(* the name or destroys the file.                                         *)

\* This step is a call of ramRename that returns an error.
RenameFails ==
    /\ HandlerStep
    /\ last'.op = "rename"
    /\ last'.ret \notin {OK} \cup Fatal

C19_FailedRenameLeavesGraph ==
    [][RenameFails =>
          /\ \A p \in Paths :
                pathfind(ino, p, RootId).node # NULL =>
                    pathfind(ino', p, RootId).node = pathfind(ino, p, RootId).node
          /\ \A n \in Ids : ino[n].alloc => ino'[n].alloc]_vars

----------------------------------------------------------------------------
(* C20: after any sequence of operations every live directory other than  *)
(* the root is bound under exactly one name other than "." and ".." in    *)
(* exactly one directory, and is reachable from the root by a path        *)
(* without "." and ".." components: links to directories are rejected and *)
(* no rename makes a directory its own descendant or detaches a subtree   *)
(* from the root.                                                         *)

\* The name entries that bind the inode n.
Bindings(n) == {x \in NameEntries : EntryAt(x).node = n}

\* The inodes under the directories of S, one name further down.
NamedUnder(S) == {EntryAt(x).node : x \in {y \in NameEntries : y[1] \in S}}

RECURSIVE NamedFrom(_, _)
NamedFrom(S, k) ==
    IF k = 0 THEN S ELSE NamedFrom(S \cup NamedUnder(S), k - 1)

C20_DirectoriesBoundOnce ==
    phase = "run" =>
        \A d \in AllocDirs \ {RootId} :
            /\ Cardinality(Bindings(d)) = 1
            /\ d \in NamedFrom({RootId}, MaxInodes)

----------------------------------------------------------------------------
(* C21: ramRead on an open regular file copies only bytes that lie inside *)
(* the file's contents: for every offset >= 0 and every requested size,   *)
(* the offset plus the number of bytes copied is at most the file's size  *)
(* whenever any byte is copied.                                           *)

C21_ReadStaysInside ==
    phase = "run" =>
        \A fi \in BagToSet(handles), o \in Offsets, n \in Counts :
            (/\ ino[fi.node].alloc /\ isFile(ino[fi.node])
             /\ read(ino, fi.node, n, o).err = OK
             /\ read(ino, fi.node, n, o).copied > 0)
            => o + read(ino, fi.node, n, o).copied <= ino[fi.node].size

====
